---- MODULE Spec2Model ----
(***************************************************************************)
(* Model of usr/src/boot/sys/boot/common/dev_net.c: the "net" raw device   *)
(* of the boot loader.  net_open / net_close / net_cleanup manage the      *)
(* network interface, net_getparams resolves the boot parameters through   *)
(* BOOTP, RARP and RPC/bootparam, and net_parse_rootpath decodes the root  *)
(* path string.                                                            *)
(*                                                                         *)
(* C strings are sequences of one-character strings (the terminating NUL   *)
(* is implicit); IPv4 addresses are tuples of four octets, most            *)
(* significant first, so that no 32-bit value has to fit a model integer.  *)
(***************************************************************************)
EXTENDS Integers, Sequences, FiniteSets, TLC

VARIABLES
    netdev_name,    \* static char *netdev_name
    netdev_sock,    \* static int netdev_sock
    netdev_opens,   \* static int netdev_opens
    f_devdata,      \* f->f_devdata of the open_file handed to net_open/net_close
    myip,           \* struct in_addr myip
    netmask,        \* n_long netmask
    gateip,         \* struct in_addr gateip
    rootip,         \* struct in_addr rootip
    rootpath,       \* char rootpath[FNAME_SIZE]
    netproto,       \* int netproto
    op,             \* the entry point that ran last
    ret,            \* its return value
    calls,          \* the collaborators it called, in order
    console,        \* the messages it printed, in order
    bootp_ip,       \* myip as net_getparams read it right after bootp()
    parse_in,       \* rootpath on entry to the last net_parse_rootpath
    parse_ret,      \* return value of the last net_parse_rootpath
    open_dev,       \* the devname argument of the last net_open
    exit_rootip,    \* rootip on reaching the exit label of the last net_getparams
    stages,         \* the fields after each stage of the last net_getparams
    netifs,         \* the interfaces that netif_open gave and netif_close has not taken
    netifs_max,     \* the most of them held at once during the last entry point
    reparsed        \* the last net_parse_rootpath ran on the output of the one before

vars == << netdev_name, netdev_sock, netdev_opens, f_devdata, myip, netmask,
           gateip, rootip, rootpath, netproto, op, ret, calls, console,
           bootp_ip, parse_in, parse_ret, open_dev, exit_rootip, stages,
           netifs, netifs_max, reparsed >>

----------------------------------------------------------------------------
(* Constants of the program.  FNAME_SIZE (the size of rootpath and of the  *)
(* ip scratch buffer) comes from net.h, the errno values from errno.h.     *)

FNAME_SIZE == 128

NET_NONE == "NET_NONE"
NET_NFS == "NET_NFS"
NET_TFTP == "NET_TFTP"

INADDR_ANY == << 0, 0, 0, 0 >>
INADDR_NONE == << 255, 255, 255, 255 >>

ENXIO == 6
EIO == 5

----------------------------------------------------------------------------
(* Text *)

Digits == << "0", "1", "2", "3", "4", "5", "6", "7", "8", "9" >>

IsDigit(c) == \E k \in 1..Len(Digits) : Digits[k] = c

DigitVal(c) == (CHOOSE k \in 1..Len(Digits) : Digits[k] = c) - 1

Min(S) == CHOOSE x \in S : \A y \in S : x <= y

\* s[from..], the C string a pointer to position `from` of s denotes
Tail_from(s, from) == SubSeq(s, from, Len(s))

\* strncmp(s, p, strlen(p)) == 0
strncmp_eq(s, p) == Len(s) >= Len(p) /\ SubSeq(s, 1, Len(p)) = p

\* strchr(s + from - 1, c): position of the first c at or after `from`, 0 for NULL
strchr(s, from, c) ==
    LET hits == { k \in from..Len(s) : s[k] = c }
    IN IF hits = {} THEN 0 ELSE Min(hits)

\* Variant of strlcat that ignores the size of the buffer, as strcat does
strlcat_unbounded(dst, src, size) == dst \o src

\* strlcat(dst, src, size): appends as much of src as the buffer of `size` holds
strlcat(dst, src, size) ==
    IF Len(dst) >= size - 1 THEN dst
    ELSE IF Len(dst) + Len(src) <= size - 1 THEN dst \o src
    ELSE dst \o SubSeq(src, 1, size - 1 - Len(dst))

\* snprintf(ip, size, "%.*s", n, s + from - 1)
snprintf_prec(s, from, n, size) ==
    LET want == SubSeq(s, from, from + n - 1)
    IN IF Len(want) <= size - 1 THEN want ELSE SubSeq(want, 1, size - 1)

----------------------------------------------------------------------------
(* inet_addr: dotted-quad text to address, INADDR_NONE when it does not parse *)

\* The fields of s between the dots
RECURSIVE SplitDots(_)
SplitDots(s) ==
    LET d == strchr(s, 1, ".")
    IN IF d = 0 THEN << s >>
       ELSE << SubSeq(s, 1, d - 1) >> \o SplitDots(Tail_from(s, d + 1))

\* Value of at most three digits in `base`
RECURSIVE Horner(_, _, _)
Horner(s, base, acc) ==
    IF s = << >> THEN acc ELSE Horner(Tail(s), base, acc * base + DigitVal(s[1]))

\* Value of a digit string in `base`, 256 standing for every value above 255;
\* -1 if a character is no digit of the base
NumVal(s, base) ==
    IF \E k \in 1..Len(s) : ~IsDigit(s[k]) \/ DigitVal(s[k]) >= base THEN -1
    ELSE LET nz == { k \in 1..Len(s) : s[k] # "0" }
             sig == IF nz = {} THEN << >> ELSE Tail_from(s, Min(nz))
             v == IF Len(sig) > 3 THEN 256 ELSE Horner(sig, base, 0)
         IN IF v > 256 THEN 256 ELSE v

\* One field, read as strtoul(..., 0) reads it: a leading 0 means octal
OctetVal(s) ==
    IF s = << >> THEN -1
    ELSE IF Len(s) > 1 /\ s[1] = "0" THEN NumVal(Tail(s), 8)
    ELSE NumVal(s, 10)

\* The address four fields denote, INADDR_NONE unless each is in 0..255
quad(f) ==
    IF Len(f) = 4 /\ \A k \in 1..4 : OctetVal(f[k]) \in 0..255
    THEN << OctetVal(f[1]), OctetVal(f[2]), OctetVal(f[3]), OctetVal(f[4]) >>
    ELSE INADDR_NONE

inet_addr(s) == quad(SplitDots(s))

----------------------------------------------------------------------------
(* net_parse_rootpath *)

S_slash == << "/" >>
S_colon == << ":" >>
S_tftp == << "t", "f", "t", "p", ":", "/" >>
S_nfs == << "n", "f", "s", ":", "/" >>

uri_schemes == << [ scheme |-> S_tftp, proto |-> NET_TFTP ],
                  [ scheme |-> S_nfs, proto |-> NET_NFS ] >>

\* The scheme loop: the index it stops at, nitems(uri_schemes) + 1 when it runs out
scheme_lookup(path) ==
    LET m == { k \in 1..Len(uri_schemes) : strncmp_eq(path, uri_schemes[k].scheme) }
    IN IF m = {} THEN Len(uri_schemes) + 1 ELSE Min(m)

\* Variant of parse_compat without the special case of "/"
parse_compat_no_tftp(path) ==
    LET colon == strchr(path, 1, ":")
    IN IF colon # 0
       THEN [ rootpath |-> Tail_from(path, colon + 1), netproto |-> NET_NFS,
              addr |-> inet_addr(SubSeq(path, 1, colon - 1)), printed |-> << >> ]
       ELSE [ rootpath |-> path, netproto |-> NET_NFS, addr |-> INADDR_NONE,
              printed |-> << >> ]

\* Variant of parse_compat that copies the path from the colon, not from after it
parse_compat_keeps_colon(path) ==
    IF path = S_slash
    THEN [ rootpath |-> path, netproto |-> NET_TFTP, addr |-> INADDR_NONE,
           printed |-> << >> ]
    ELSE LET colon == strchr(path, 1, ":")
         IN IF colon # 0
            THEN [ rootpath |-> Tail_from(path, colon), netproto |-> NET_NFS,
                   addr |-> inet_addr(SubSeq(path, 1, colon - 1)),
                   printed |-> << >> ]
            ELSE [ rootpath |-> path, netproto |-> NET_NFS,
                   addr |-> INADDR_NONE, printed |-> << >> ]

\* Variant of parse_compat that leaves rootpath alone when the address is bad
parse_compat_gives_up(path) ==
    IF path = S_slash
    THEN [ rootpath |-> path, netproto |-> NET_TFTP, addr |-> INADDR_NONE,
           printed |-> << >> ]
    ELSE LET colon == strchr(path, 1, ":")
             addr == IF colon # 0 THEN inet_addr(SubSeq(path, 1, colon - 1))
                     ELSE INADDR_NONE
         IN [ rootpath |-> IF addr # INADDR_NONE THEN Tail_from(path, colon + 1)
                           ELSE path,
              netproto |-> NET_NFS, addr |-> addr, printed |-> << >> ]

\* Variant of parse_compat whose address starts out as 0, not INADDR_NONE
parse_compat_zero_addr(path) ==
    IF path = S_slash
    THEN [ rootpath |-> path, netproto |-> NET_TFTP, addr |-> INADDR_ANY,
           printed |-> << >> ]
    ELSE LET colon == strchr(path, 1, ":")
         IN IF colon # 0
            THEN [ rootpath |-> Tail_from(path, colon + 1),
                   netproto |-> NET_NFS,
                   addr |-> inet_addr(SubSeq(path, 1, colon - 1)),
                   printed |-> << >> ]
            ELSE [ rootpath |-> path, netproto |-> NET_NFS,
                   addr |-> INADDR_ANY, printed |-> << >> ]

\* The compatibility branch: no scheme matched
parse_compat(path) ==
    IF path = S_slash
    THEN [ rootpath |-> path, netproto |-> NET_TFTP, addr |-> INADDR_NONE,
           printed |-> << >> ]
    ELSE LET colon == strchr(path, 1, ":")   \* strsep(&ptr, ":")
         IN IF colon # 0
            THEN [ rootpath |-> Tail_from(path, colon + 1),
                   netproto |-> NET_NFS,
                   addr |-> inet_addr(SubSeq(path, 1, colon - 1)),
                   printed |-> << >> ]
            ELSE [ rootpath |-> path, netproto |-> NET_NFS,
                   addr |-> INADDR_NONE, printed |-> << >> ]

\* Variant of take_address that copies the path from after the slash
take_address_drops_slash(buf, proto, val, addr) ==
    [ rootpath |-> Tail_from(buf, val + 1), netproto |-> proto, addr |-> addr,
      printed |-> IF addr = INADDR_NONE THEN << "Bad IP address" >> ELSE << >> ]

\* Variant of take_address that stops at a bad address without copying the path
take_address_bails_out(buf, proto, val, addr) ==
    IF addr = INADDR_NONE
    THEN [ rootpath |-> buf, netproto |-> proto, addr |-> addr,
           printed |-> << "Bad IP address" >> ]
    ELSE [ rootpath |-> Tail_from(buf, val), netproto |-> proto, addr |-> addr,
           printed |-> << >> ]

\* The address text was cut out and converted to addr: complain if it is
\* none, copy the path from the slash at val
take_address(buf, proto, val, addr) ==
    [ rootpath |-> Tail_from(buf, val), netproto |-> proto, addr |-> addr,
      printed |-> IF addr = INADDR_NONE THEN << "Bad IP address" >> ELSE << >> ]

\* if (val != NULL): the text from ptr up to val is the address
split_address(buf, proto, ptr, val) ==
    IF val # 0
    THEN take_address(buf, proto, val,
                      inet_addr(snprintf_prec(buf, ptr, val - ptr, FNAME_SIZE)))
    ELSE [ rootpath |-> buf, netproto |-> proto, addr |-> INADDR_NONE,
           printed |-> << >> ]

\* Look for the slash that ends the address in buf
find_slash(buf, proto, ptr) == split_address(buf, proto, ptr, strchr(buf, ptr, "/"))

\* The <scheme>:// form: an address is expected; without a slash after it,
\* one is appended first
parse_address(path, proto, ptr) ==
    IF strchr(path, ptr, "/") = 0
    THEN find_slash(strlcat(path, S_slash, FNAME_SIZE), proto, ptr)
    ELSE find_slash(path, proto, ptr)

\* Variant of parse_scheme that forgets to step back onto the slash
parse_scheme_no_backup(path, i) ==
    LET ptr == 1 + Len(uri_schemes[i].scheme)
        proto == uri_schemes[i].proto
    IN IF ptr <= Len(path) /\ path[ptr] = "/"
       THEN parse_address(path, proto, ptr + 1)
       ELSE [ rootpath |-> Tail_from(path, ptr), netproto |-> proto,
              addr |-> INADDR_NONE, printed |-> << >> ]

\* A scheme of the table matched at index i
parse_scheme(path, i) ==
    LET ptr == 1 + Len(uri_schemes[i].scheme)
        proto == uri_schemes[i].proto
    IN IF ptr <= Len(path) /\ path[ptr] = "/"
       THEN parse_address(path, proto, ptr + 1)
       ELSE [ rootpath |-> Tail_from(path, ptr - 1), netproto |-> proto,
              addr |-> INADDR_NONE, printed |-> << >> ]

\* The whole function: the new rootpath and netproto, the value returned and
\* what was printed
net_parse_rootpath(path) ==
    LET i == scheme_lookup(path)
    IN IF i > Len(uri_schemes) THEN parse_compat(path) ELSE parse_scheme(path, i)

----------------------------------------------------------------------------
(* Address texts *)

T_1234 == << "1", ".", "2", ".", "3", ".", "4" >>
T_10_0_2_1 == << "1", "0", ".", "0", ".", "2", ".", "1" >>
T_bcast == << "2", "5", "5", ".", "2", "5", "5", ".", "2", "5", "5", ".", "2", "5", "5" >>
T_any == << "0", ".", "0", ".", "0", ".", "0" >>
T_octal == << "0", "1", "0", ".", "0", ".", "0", ".", "0", "7" >>
T_host == << "h", "o", "s", "t" >>
T_3part == << "1", ".", "2", ".", "3" >>
T_range == << "1", ".", "2", ".", "3", ".", "2", "5", "6" >>
T_gap == << "1", ".", ".", "3", ".", "4" >>
T_5part == << "1", ".", "2", ".", "3", ".", "4", ".", "5" >>
T_bad8 == << "0", "8", ".", "2", ".", "3", ".", "4" >>

----------------------------------------------------------------------------
(* The collaborators: what one call of bootp, rarp_getipaddress, bp_whoami *)
(* and bp_getfile may answer.  An environment fixes the answers for one    *)
(* call of net_open.                                                       *)

CLIENT_BOOTP == << 10, 0, 2, 15 >>
CLIENT_RARP == << 10, 0, 3, 15 >>
SERVER_BOOTP == << 10, 0, 2, 2 >>
SERVER_BOOTPARAM == << 10, 0, 3, 2 >>
ROUTER == << 10, 0, 3, 1 >>
MASK_A == << 255, 0, 0, 0 >>
MASK_C == << 255, 255, 255, 0 >>

T_mask == << "2", "5", "5", ".", "2", "5", "5", ".", "2", "5", "5", ".", "0" >>

\* Root paths a BOOTP reply or the bootparam "root" answer carries
ServedPaths == { S_slash,
                 << "/", "e" >>,
                 S_nfs \o S_slash \o T_1234 \o << "/", "e" >>,
                 T_1234 \o << ":", "/", "e" >>,
                 T_any \o << ":", "/", "e" >>,
                 S_tftp \o S_slash \o T_host \o << "/", "e" >> }

Devices == { "net0", "net1" }

\* bootp(): no reply, or a reply with our address and, each optional, the root
\* server and the root path
NoReply == [ reply |-> FALSE, myip |-> INADDR_ANY, netmask |-> INADDR_ANY,
             gateip |-> INADDR_ANY, rootip |-> INADDR_ANY, has_path |-> FALSE,
             rootpath |-> << >> ]

BootpAnswers ==
    { NoReply }
    \cup { [ reply |-> TRUE, myip |-> CLIENT_BOOTP, netmask |-> MASK_C,
             gateip |-> ROUTER, rootip |-> r, has_path |-> FALSE,
             rootpath |-> << >> ] : r \in { INADDR_ANY, SERVER_BOOTP } }
    \cup { [ reply |-> TRUE, myip |-> CLIENT_BOOTP, netmask |-> MASK_C,
             gateip |-> ROUTER, rootip |-> r, has_path |-> TRUE,
             rootpath |-> p ] : r \in { INADDR_ANY, SERVER_BOOTP }, p \in ServedPaths }

RarpAnswers == { [ rc |-> -1, myip |-> INADDR_ANY, netmask |-> INADDR_ANY ],
                 [ rc |-> 0, myip |-> CLIENT_RARP, netmask |-> MASK_A ] }

WhoamiAnswers == { [ rc |-> -1, gateip |-> INADDR_ANY ],
                   [ rc |-> 0, gateip |-> ROUTER ] }

GatewayAnswers == { [ rc |-> -1, addr |-> INADDR_ANY, path |-> << >> ],
                    [ rc |-> 0, addr |-> ROUTER, path |-> T_mask ],
                    [ rc |-> 0, addr |-> ROUTER, path |-> T_host ] }

RootAnswers ==
    { [ rc |-> -1, addr |-> INADDR_ANY, path |-> << >> ] }
    \cup { [ rc |-> 0, addr |-> SERVER_BOOTPARAM, path |-> p ] : p \in ServedPaths }

\* The environment in which every collaborator fails
Silent ==
    [ netif_open |-> -1, bootp |-> NoReply,
      rarp |-> [ rc |-> -1, myip |-> INADDR_ANY, netmask |-> INADDR_ANY ],
      whoami |-> [ rc |-> -1, gateip |-> INADDR_ANY ],
      gateway |-> [ rc |-> -1, addr |-> INADDR_ANY, path |-> << >> ],
      root |-> [ rc |-> -1, addr |-> INADDR_ANY, path |-> << >> ] ]

\* The answers of netif_open and bootp, the other collaborators silent
FirstAnswers ==
    { [ Silent EXCEPT !.netif_open = n, !.bootp = b ] :
        n \in { -1, 0 }, b \in BootpAnswers }

\* e1 with the answers of RARP and of the bootparam server filled in
SunAnswers(e1) ==
    { [ e1 EXCEPT !.rarp = r, !.whoami = w, !.gateway = g, !.root = t ] :
        r \in RarpAnswers, w \in WhoamiAnswers, g \in GatewayAnswers,
        t \in RootAnswers }

Call(fn, rc) == [ fn |-> fn, rc |-> rc ]

\* The program state as one record, for the operators below
State ==
    [ netdev_name |-> netdev_name, netdev_sock |-> netdev_sock,
      netdev_opens |-> netdev_opens, f_devdata |-> f_devdata, myip |-> myip,
      netmask |-> netmask, gateip |-> gateip, rootip |-> rootip,
      rootpath |-> rootpath, netproto |-> netproto, calls |-> << >>,
      console |-> << >>, bootp_ip |-> bootp_ip, parse_in |-> parse_in,
      parse_ret |-> parse_ret, open_dev |-> open_dev,
      exit_rootip |-> exit_rootip, stages |-> << >>, netifs |-> netifs,
      netifs_max |-> netifs, ret |-> 0 ]

\* The fields as they are after the stage named, added to the record of stages
Stage(st, name) ==
    [ st EXCEPT !.stages = Append(st.stages,
                                  [ stage |-> name, myip |-> st.myip,
                                    netmask |-> st.netmask, gateip |-> st.gateip,
                                    rootip |-> st.rootip ]) ]

\* bootp(sock): a reply fills in the fields it carries, no reply leaves all alone
bootp(st, b) ==
    LET filled == IF b.reply
                  THEN [ st EXCEPT !.myip = b.myip, !.netmask = b.netmask,
                                   !.gateip = b.gateip, !.rootip = b.rootip,
                                   !.rootpath = IF b.has_path THEN b.rootpath
                                                ELSE st.rootpath ]
                  ELSE st
    IN [ filled EXCEPT !.calls = Append(st.calls, Call("bootp", 0)) ]

\* rarp_getipaddress(sock): sets myip and the natural netmask, or fails
rarp_getipaddress(st, r) ==
    LET got == IF r.rc = 0
               THEN [ st EXCEPT !.myip = r.myip, !.netmask = r.netmask ]
               ELSE st
    IN [ got EXCEPT !.calls = Append(st.calls, Call("rarp_getipaddress", r.rc)) ]

\* bp_whoami(sock): sets the hostname and the gateway hint, or fails
bp_whoami(st, w) ==
    LET got == IF w.rc = 0 THEN [ st EXCEPT !.gateip = w.gateip ] ELSE st
    IN [ got EXCEPT !.calls = Append(st.calls, Call("bp_whoami", w.rc)) ]

\* 0 for the value that stands for no address
zero_if_none(addr) == IF addr = INADDR_NONE THEN INADDR_ANY ELSE addr

\* ip_convertaddr(buf): the address the text denotes, 0 when it denotes none
ip_convertaddr(buf) == zero_if_none(inet_addr(buf))

----------------------------------------------------------------------------
(* net_getparams *)

Say(st, msg) == [ st EXCEPT !.console = Append(st.console, msg) ]

\* Variant of exit_with that keeps rootip whatever the parser returned
exit_with_keeps_rootip(st, r) ==
    [ st EXCEPT !.rootpath = r.rootpath,
                !.netproto = r.netproto,
                !.parse_in = st.rootpath,
                !.parse_ret = r.addr,
                !.exit_rootip = st.rootip,
                !.console = st.console \o r.printed,
                !.calls = Append(st.calls, Call("net_parse_rootpath", 0)),
                !.ret = 0 ]

\* The parser returned r: an address found in the root path replaces rootip
exit_with(st, r) ==
    [ st EXCEPT !.rootpath = r.rootpath,
                !.netproto = r.netproto,
                !.parse_in = st.rootpath,
                !.parse_ret = r.addr,
                !.exit_rootip = st.rootip,
                !.rootip = IF r.addr # INADDR_NONE THEN r.addr ELSE st.rootip,
                !.console = st.console \o r.printed,
                !.calls = Append(st.calls, Call("net_parse_rootpath", 0)),
                !.ret = 0 ]

\* The exit label
getparams_exit(st) ==
    Stage(exit_with(st, net_parse_rootpath(st.rootpath)), "net_parse_rootpath")

\* Variant of set_netmask that assigns without the test
set_netmask_unchecked(st, smask) == [ st EXCEPT !.netmask = smask ]

\* if (smask) netmask = smask
set_netmask(st, smask) ==
    IF smask # INADDR_ANY THEN [ st EXCEPT !.netmask = smask ] ELSE st

\* The "gateway" query: gateip is cleared, then set by the answer; the text
\* of the answer is the netmask
getfile_gateway(st, g) ==
    set_netmask([ st EXCEPT !.gateip = IF g.rc = 0 THEN g.addr ELSE INADDR_ANY,
                            !.calls = Append(st.calls,
                                             Call("bp_getfile(gateway)", g.rc)) ],
                IF g.rc = 0 THEN ip_convertaddr(g.path) ELSE INADDR_ANY)

\* The "root" query: rootip and rootpath, or EIO
getfile_root(st, r) ==
    IF r.rc # 0
    THEN [ st EXCEPT !.calls = Append(st.calls, Call("bp_getfile(root)", r.rc)),
                     !.console = Append(st.console, "bootparam/getfile RPC failed"),
                     !.ret = EIO ]
    ELSE getparams_exit(Stage([ st EXCEPT !.rootip = r.addr,
                                          !.rootpath = r.path,
                                          !.calls = Append(st.calls,
                                                           Call("bp_getfile(root)", r.rc)) ],
                              "bp_getfile(root)"))

\* The two queries, after whoami succeeded
getparams_getfile(st, e) ==
    getfile_root(Stage(getfile_gateway(st, e.gateway), "bp_getfile(gateway)"),
                 e.root)

\* Variant of after_whoami that goes on to the queries though whoami failed
after_whoami_unchecked(st, e) == getparams_getfile(st, e)

\* bp_whoami was called: EIO if it failed
after_whoami(st, e) ==
    IF e.whoami.rc # 0
    THEN [ Say(st, "bootparam/whoami RPC failed") EXCEPT !.ret = EIO ]
    ELSE getparams_getfile(st, e)

\* Variant of after_rarp that goes on to whoami though RARP failed
after_rarp_unchecked(st, e) ==
    after_whoami(Stage(bp_whoami(Say(st, "client addr"), e.whoami), "bp_whoami"), e)

\* rarp_getipaddress was called: EIO if it failed, else whoami
after_rarp(st, e) ==
    IF e.rarp.rc # 0
    THEN [ Say(st, "RARP failed") EXCEPT !.ret = EIO ]
    ELSE after_whoami(Stage(bp_whoami(Say(st, "client addr"), e.whoami),
                            "bp_whoami"),
                      e)

\* The Sun way, after BOOTP gave no address: RARP, whoami, the queries
getparams_rarp(st, e) ==
    after_rarp(Stage(rarp_getipaddress(st, e.rarp), "rarp_getipaddress"), e)

\* Variant of after_bootp that goes on to RARP whatever BOOTP gave
after_bootp_always_rarp(st, e) ==
    getparams_rarp([ st EXCEPT !.bootp_ip = st.myip ], e)

\* bootp was called: done if myip is set, else the Sun way
after_bootp(st, e) ==
    IF st.myip # INADDR_ANY
    THEN getparams_exit([ st EXCEPT !.bootp_ip = st.myip ])
    ELSE getparams_rarp([ st EXCEPT !.bootp_ip = st.myip ], e)

\* net_getparams(sock); the field ret of the result is the value returned
net_getparams(st, e) ==
    after_bootp(Stage(bootp(Stage(st, "entry"), e.bootp), "bootp"), e)

----------------------------------------------------------------------------
(* The device entry points.  The setenv calls of net_open publish the      *)
(* resolved values to the environment and change nothing of this state.    *)

\* netif_close(sock) with its call recorded: one interface fewer is held
netif_close(st) ==
    [ st EXCEPT !.calls = Append(st.calls, Call("netif_close", 0)),
                !.netifs = st.netifs - 1 ]

\* netif_open(dev) answered sock, with its call recorded: a socket that is
\* not negative is one interface more held
netif_open(st, sock) ==
    [ st EXCEPT !.netdev_sock = sock,
                !.calls = Append(st.calls, Call("netif_open", sock)),
                !.netifs = IF sock >= 0 THEN st.netifs + 1 ELSE st.netifs,
                !.netifs_max = IF sock >= 0 /\ st.netifs + 1 > st.netifs_max
                               THEN st.netifs + 1 ELSE st.netifs_max ]

\* Variant of net_cleanup that leaves rootip as it is
net_cleanup_keeps_rootip(st) ==
    IF st.netdev_sock >= 0
    THEN [ netif_close(st) EXCEPT !.netdev_name = "freed",
                                  !.netdev_sock = -1 ]
    ELSE st

\* net_cleanup()
net_cleanup(st) ==
    IF st.netdev_sock >= 0
    THEN [ netif_close(st) EXCEPT !.rootip = INADDR_ANY,
                                  !.netdev_name = "freed",
                                  !.netdev_sock = -1 ]
    ELSE st

\* The end of net_open: count the open, hand out the socket
open_done(st) ==
    [ st EXCEPT !.netdev_opens = st.netdev_opens + 1,
                !.f_devdata = "netdev_sock",
                !.ret = 0 ]

\* Variant of after_getparams that returns the error and keeps the interface
after_getparams_no_release(st) == IF st.ret # 0 THEN st ELSE open_done(st)

\* net_getparams returned: on an error release the interface and return it
after_getparams(st) ==
    IF st.ret # 0
    THEN [ netif_close(st) EXCEPT !.netdev_name = "freed",
                                  !.netdev_sock = -1 ]
    ELSE open_done(st)

\* The first open, once the interface is there: resolve unless rootip is set
open_resolve(st, e) ==
    IF st.rootip = INADDR_ANY
    THEN after_getparams(net_getparams(st, e))
    ELSE open_done(st)

\* netif_open returned: ENXIO if it failed, else remember the name
after_netif_open(st, dev, e) ==
    IF st.netdev_sock < 0
    THEN [ Say(st, "netif_open() failed") EXCEPT !.ret = ENXIO ]
    ELSE open_resolve([ st EXCEPT !.netdev_name = dev ], e)

\* The first open: find the interface unless one is held
open_first(st, dev, e) ==
    IF st.netdev_sock < 0
    THEN after_netif_open(netif_open(st, e.netif_open), dev, e)
    ELSE open_resolve(st, e)

\* net_open after the previous interface, if another, was closed
open_body(st, dev, e) ==
    IF st.netdev_opens = 0 THEN open_first(st, dev, e) ELSE open_done(st)

\* Variant of net_open that never closes the interface held
net_open_no_cleanup(st, dev, e) ==
    open_body([ st EXCEPT !.open_dev = dev ], dev, e)

\* net_open(f, dev)
net_open(st, dev, e) ==
    open_body(IF st.netdev_sock >= 0 /\ dev # st.netdev_name
              THEN net_cleanup([ st EXCEPT !.open_dev = dev ])
              ELSE [ st EXCEPT !.open_dev = dev ],
              dev, e)

\* net_close(f)
net_close(st) == [ st EXCEPT !.f_devdata = "NULL", !.ret = 0 ]

----------------------------------------------------------------------------
(* The state machine *)

\* MaxOpens bounds netdev_opens, which net_open only ever increments
MaxOpens == 3

\* The collaborator called fn in the run that ended in st
Consulted(st, fn) == \E k \in 1..Len(st.calls) : st.calls[k].fn = fn

\* e answers only the calls that the run ending in st made
Canonical(e, st) ==
    /\ Consulted(st, "netif_open") \/ e.netif_open = Silent.netif_open
    /\ Consulted(st, "bootp") \/ e.bootp = Silent.bootp
    /\ Consulted(st, "rarp_getipaddress") \/ e.rarp = Silent.rarp
    /\ Consulted(st, "bp_whoami") \/ e.whoami = Silent.whoami
    /\ Consulted(st, "bp_getfile(gateway)") \/ e.gateway = Silent.gateway
    /\ Consulted(st, "bp_getfile(root)") \/ e.root = Silent.root

Becomes(st, name) ==
    /\ netdev_name' = st.netdev_name
    /\ netdev_sock' = st.netdev_sock
    /\ netdev_opens' = st.netdev_opens
    /\ f_devdata' = st.f_devdata
    /\ myip' = st.myip
    /\ netmask' = st.netmask
    /\ gateip' = st.gateip
    /\ rootip' = st.rootip
    /\ rootpath' = st.rootpath
    /\ netproto' = st.netproto
    /\ calls' = st.calls
    /\ console' = st.console
    /\ bootp_ip' = st.bootp_ip
    /\ parse_in' = st.parse_in
    /\ parse_ret' = st.parse_ret
    /\ open_dev' = st.open_dev
    /\ exit_rootip' = st.exit_rootip
    /\ stages' = st.stages
    /\ netifs' = st.netifs
    /\ netifs_max' = st.netifs_max
    /\ reparsed' = FALSE
    /\ ret' = st.ret
    /\ op' = name

Init ==
    /\ netdev_name = "NULL"
    /\ netdev_sock = -1
    /\ netdev_opens = 0
    /\ f_devdata = "NULL"
    /\ myip = INADDR_ANY
    /\ netmask = INADDR_ANY
    /\ gateip = INADDR_ANY
    /\ rootip = INADDR_ANY
    /\ rootpath = << >>
    /\ netproto = NET_NONE
    /\ op = "init"
    /\ ret = 0
    /\ calls = << >>
    /\ console = << >>
    /\ bootp_ip = INADDR_ANY
    /\ parse_in = << >>
    /\ parse_ret = INADDR_NONE
    /\ open_dev = "NULL"
    /\ exit_rootip = INADDR_ANY
    /\ stages = << >>
    /\ netifs = 0
    /\ netifs_max = 0
    /\ reparsed = FALSE

\* net_open ends in st, having consulted no collaborator but those e answers
Lands(e, st) == Canonical(e, st) /\ Becomes(st, "net_open")

\* One call of net_open on dev with the collaborators answering as e does
Opened(dev, e) == Lands(e, net_open(State, dev, e))

NetOpen ==
    /\ netdev_opens < MaxOpens
    /\ \E dev \in Devices, e1 \in FirstAnswers :
          IF Consulted(net_open(State, dev, e1), "rarp_getipaddress")
          THEN \E e \in SunAnswers(e1) : Opened(dev, e)
          ELSE Opened(dev, e1)

NetClose == \E st \in { net_close(State) } : Becomes(st, "net_close")

NetCleanup == \E st \in { net_cleanup(State) } : Becomes(st, "net_cleanup")

Next == NetOpen \/ NetClose \/ NetCleanup

Spec == Init /\ [][Next]_vars

----------------------------------------------------------------------------
(* Root-path strings the parser is exercised on *)

\* MaxPath bounds the path texts: all strings of e and / up to that length
MaxPath == 3

RECURSIVE Strings(_, _)
Strings(alphabet, n) ==
    IF n = 0 THEN { << >> }
    ELSE LET shorter == Strings(alphabet, n - 1)
         IN shorter \cup { << c >> \o w : c \in alphabet, w \in shorter }

Prefixes == { << >>, S_tftp, S_nfs, S_tftp \o S_slash, S_nfs \o S_slash,
              << "n", "f", "s", ":" >>, << "f", "t", "p", ":", "/", "/" >> }

Hosts == { << >>, T_1234, T_10_0_2_1, T_bcast, T_any, T_octal, T_host, T_3part,
           T_range, T_gap, T_5part, T_bad8 }

Tails == Strings({ "e", "/" }, MaxPath)
           \cup { S_colon \o w : w \in Strings({ "e", "/" }, MaxPath - 1) }

\* A valid address text of exactly n characters (n >= 7): zero-padded 1.2.3.4
PaddedAddress(n) == [ k \in 1..(n - Len(T_1234)) |-> "0" ] \o T_1234

\* Strings that fill the rootpath buffer, or miss filling it by one character
FullBuffer ==
    { p \o PaddedAddress(FNAME_SIZE - 1 - Len(p) - Len(t) - slack) \o t :
        p \in { S_tftp \o S_slash, S_nfs \o S_slash, << >> },
        t \in { << >>, << "/", "e" >>, << ":", "/", "e" >> },
        slack \in 0..1 }

RootPaths ==
    { w \in { p \o h \o t : p \in Prefixes, h \in Hosts, t \in Tails } \cup FullBuffer :
        Len(w) <= FNAME_SIZE - 1 }

----------------------------------------------------------------------------
(* The parser on its own: rootpath is set from outside (an operator         *)
(* override), then net_parse_rootpath is called.                           *)

ParseInit ==
    /\ netdev_name = "NULL"
    /\ netdev_sock = -1
    /\ netdev_opens = 0
    /\ f_devdata = "NULL"
    /\ myip = INADDR_ANY
    /\ netmask = INADDR_ANY
    /\ gateip = INADDR_ANY
    /\ rootip = INADDR_ANY
    /\ rootpath \in RootPaths
    /\ netproto = NET_NONE
    /\ op = "init"
    /\ ret = 0
    /\ calls = << >>
    /\ console = << >>
    /\ bootp_ip = INADDR_ANY
    /\ parse_in = << >>
    /\ parse_ret = INADDR_NONE
    /\ open_dev = "NULL"
    /\ exit_rootip = INADDR_ANY
    /\ stages = << >>
    /\ netifs = 0
    /\ netifs_max = 0
    /\ reparsed = FALSE

ParseRootpath ==
    LET r == net_parse_rootpath(rootpath)
    IN /\ rootpath' = r.rootpath
       /\ netproto' = r.netproto
       /\ parse_ret' = r.addr
       /\ parse_in' = rootpath
       /\ console' = r.printed
       /\ calls' = << >>
       /\ op' = "net_parse_rootpath"
       /\ reparsed' = (op = "net_parse_rootpath")
       /\ UNCHANGED << netdev_name, netdev_sock, netdev_opens, f_devdata, myip,
                       netmask, gateip, rootip, ret, bootp_ip, open_dev,
                       exit_rootip, stages, netifs, netifs_max >>

ParseNext == ParseRootpath

SpecParse == ParseInit /\ [][ParseNext]_vars

----------------------------------------------------------------------------
(* Properties of net_getparams *)

\* The last entry point called fn
Called(fn) == \E k \in 1..Len(calls) : calls[k].fn = fn

BootparamCalled ==
    Called("bp_whoami") \/ Called("bp_getfile(gateway)") \/ Called("bp_getfile(root)")

C2_RarpFailureIsFatal ==
    \A k \in 1..Len(calls) :
        (calls[k].fn = "bootp" /\ bootp_ip = INADDR_ANY) =>
            /\ k < Len(calls)
            /\ calls[k + 1].fn = "rarp_getipaddress"
            /\ calls[k + 1].rc # 0 =>
                  /\ ret = EIO
                  /\ ~BootparamCalled
                  /\ ~Called("net_parse_rootpath")

C2_Witness ==
    /\ op = "net_open"
    /\ calls = << Call("netif_open", 0), Call("bootp", 0),
                  Call("rarp_getipaddress", -1), Call("netif_close", 0) >>
    /\ bootp_ip = INADDR_ANY
    /\ ret = EIO

----------------------------------------------------------------------------
(* Properties of net_parse_rootpath *)

\* net_parse_rootpath has run in the last entry point
RootpathParsed ==
    \/ op = "net_parse_rootpath"
    \/ \E k \in 1..Len(calls) : calls[k].fn = "net_parse_rootpath"

\* a is four numbers of 0..255 separated by dots
IsDottedQuad(a) ==
    LET f == SplitDots(a)
    IN Len(f) = 4 /\ \A k \in 1..4 : OctetVal(f[k]) \in 0..255

\* The address a dotted quad denotes
QuadAddress(a) ==
    LET f == SplitDots(a)
    IN << OctetVal(f[1]), OctetVal(f[2]), OctetVal(f[3]), OctetVal(f[4]) >>

\* s starts with the scheme prefix k followed by a second slash
DoubleSlash(s, k) == strncmp_eq(s, uri_schemes[k].scheme \o S_slash)

\* s starts with no scheme prefix of the table
NoScheme(s) == \A k \in 1..Len(uri_schemes) : ~strncmp_eq(s, uri_schemes[k].scheme)

\* C3: for an input <scheme>://<ipv4>/<path> the parser sets that scheme's
\* protocol, returns that address and leaves "/" followed by <path> as rootpath.
C3_SchemeAddressPath ==
    RootpathParsed =>
        \A k \in 1..Len(uri_schemes), j \in 1..Len(parse_in) :
            LET pre == Len(uri_schemes[k].scheme) + 1
                a == SubSeq(parse_in, pre + 1, j - 1)
            IN (DoubleSlash(parse_in, k) /\ j > pre /\ parse_in[j] = "/"
                    /\ IsDottedQuad(a))
               => /\ netproto = uri_schemes[k].proto
                  /\ parse_ret = QuadAddress(a)
                  /\ rootpath = Tail_from(parse_in, j)

C3_Witness ==
    /\ RootpathParsed
    /\ parse_in = S_nfs \o S_slash \o T_10_0_2_1 \o << "/", "e", "/" >>
    /\ rootpath = << "/", "e", "/" >>
    /\ parse_ret = << 10, 0, 2, 1 >>
    /\ netproto = NET_NFS

\* C4: for an input <scheme>:/path whose character after the prefix is not a
\* slash the parser sets that scheme's protocol, returns INADDR_NONE and leaves
\* the text from the slash of the prefix on as rootpath.
C4_SingleSlash ==
    RootpathParsed =>
        \A k \in 1..Len(uri_schemes) :
            LET n == Len(uri_schemes[k].scheme)
            IN (strncmp_eq(parse_in, uri_schemes[k].scheme)
                    /\ (Len(parse_in) = n \/ parse_in[n + 1] # "/"))
               => /\ netproto = uri_schemes[k].proto
                  /\ parse_ret = INADDR_NONE
                  /\ rootpath = Tail_from(parse_in, n)

C4_Witness ==
    /\ RootpathParsed
    /\ parse_in = S_tftp \o << "e", "/", "e" >>
    /\ rootpath = << "/", "e", "/", "e" >>
    /\ netproto = NET_TFTP
    /\ parse_ret = INADDR_NONE

\* C5: the input "/" selects TFTP, returns INADDR_NONE and stays "/".
C5_NoRootpathIsTftp ==
    (RootpathParsed /\ parse_in = S_slash)
        => netproto = NET_TFTP /\ parse_ret = INADDR_NONE /\ rootpath = S_slash

C5_Witness == RootpathParsed /\ parse_in = S_slash /\ netproto = NET_TFTP

\* C6: an input with no scheme prefix other than "/" selects NFS; with a colon
\* the text before the first colon is parsed as a dotted quad and returned and
\* the text after it becomes rootpath; without a colon INADDR_NONE is returned
\* and rootpath is unchanged.
C6_Compatibility ==
    (RootpathParsed /\ NoScheme(parse_in) /\ parse_in # S_slash) =>
        /\ netproto = NET_NFS
        /\ \A c \in 1..Len(parse_in) :
              (parse_in[c] = ":" /\ \A b \in 1..(c - 1) : parse_in[b] # ":") =>
                  LET a == SubSeq(parse_in, 1, c - 1)
                  IN /\ parse_ret = IF IsDottedQuad(a) THEN QuadAddress(a)
                                    ELSE INADDR_NONE
                     /\ rootpath = Tail_from(parse_in, c + 1)
        /\ (\A c \in 1..Len(parse_in) : parse_in[c] # ":") =>
              parse_ret = INADDR_NONE /\ rootpath = parse_in

C6_Witness ==
    /\ RootpathParsed
    /\ parse_in = T_1234 \o << ":", "/", "e" >>
    /\ netproto = NET_NFS
    /\ parse_ret = << 1, 2, 3, 4 >>
    /\ rootpath = << "/", "e" >>

C6_WitnessNoColon ==
    /\ RootpathParsed
    /\ parse_in = << "/", "e", "e" >>
    /\ netproto = NET_NFS
    /\ parse_ret = INADDR_NONE
    /\ rootpath = << "/", "e", "e" >>

\* C7: for an input <scheme>://<ipv4> with no slash after the address, of any
\* length the rootpath buffer holds, the parser sets that scheme's protocol,
\* returns that address and sets rootpath to "/".
C7_DefaultPath ==
    RootpathParsed =>
        \A k \in 1..Len(uri_schemes) :
            LET a == Tail_from(parse_in, Len(uri_schemes[k].scheme) + 2)
            IN (DoubleSlash(parse_in, k) /\ IsDottedQuad(a))
               => /\ netproto = uri_schemes[k].proto
                  /\ parse_ret = QuadAddress(a)
                  /\ rootpath = S_slash

\* The "Bad IP address" diagnostic is on the console
BadAddressPrinted == \E m \in 1..Len(console) : console[m] = "Bad IP address"

\* C8: for an input <scheme>://<text>/<path> whose <text> is no valid dotted
\* quad the parser prints "Bad IP address", returns INADDR_NONE, sets the
\* scheme's protocol and leaves "/" followed by <path> as rootpath.
C8_BadAddress ==
    RootpathParsed =>
        \A k \in 1..Len(uri_schemes), j \in 1..Len(parse_in) :
            LET pre == Len(uri_schemes[k].scheme) + 1
                a == SubSeq(parse_in, pre + 1, j - 1)
            IN (DoubleSlash(parse_in, k) /\ j > pre /\ parse_in[j] = "/"
                    /\ (\A b \in (pre + 1)..(j - 1) : parse_in[b] # "/")
                    /\ ~IsDottedQuad(a))
               => /\ BadAddressPrinted
                  /\ parse_ret = INADDR_NONE
                  /\ netproto = uri_schemes[k].proto
                  /\ rootpath = Tail_from(parse_in, j)

C8_Witness ==
    /\ RootpathParsed
    /\ parse_in = S_nfs \o S_slash \o T_host \o << "/", "e" >>
    /\ BadAddressPrinted
    /\ parse_ret = INADDR_NONE
    /\ rootpath = << "/", "e" >>

\* The parser hands the text parse_in[pre+1 .. j-1] of a <scheme>:// input to
\* inet_addr (j is the first slash after the prefix, or one past the end when
\* there is none and the buffer has room for the slash that is appended), and
\* that text is no valid dotted quad
SchemeParseFailure(k, j) ==
    LET pre == Len(uri_schemes[k].scheme) + 1
    IN /\ DoubleSlash(parse_in, k)
       /\ j > pre
       /\ \A b \in (pre + 1)..(j - 1) : parse_in[b] # "/"
       /\ IF j <= Len(parse_in) THEN parse_in[j] = "/"
          ELSE Len(parse_in) <= FNAME_SIZE - 2
       /\ ~IsDottedQuad(SubSeq(parse_in, pre + 1, j - 1))

\* The parser hands the text before the first colon, at c, of a scheme-less
\* input to inet_addr, and that text is no valid dotted quad
LegacyParseFailure(c) ==
    /\ NoScheme(parse_in)
    /\ parse_in # S_slash
    /\ parse_in[c] = ":"
    /\ \A b \in 1..(c - 1) : parse_in[b] # ":"
    /\ ~IsDottedQuad(SubSeq(parse_in, 1, c - 1))

\* The path portion of a <scheme>:// input whose address text ends before j
SchemePathPortion(j) ==
    IF j <= Len(parse_in) THEN Tail_from(parse_in, j) ELSE S_slash

\* C9 as stated: every dotted-quad parse failure, in the scheme:// form and in
\* the legacy form alike, gives INADDR_NONE and a diagnostic, with the path
\* portion extracted.
C9_FailureHasDiagnostic ==
    RootpathParsed =>
        /\ \A k \in 1..Len(uri_schemes), j \in 1..(Len(parse_in) + 1) :
              SchemeParseFailure(k, j) =>
                  /\ parse_ret = INADDR_NONE
                  /\ BadAddressPrinted
                  /\ rootpath = SchemePathPortion(j)
        /\ \A c \in 1..Len(parse_in) :
              LegacyParseFailure(c) =>
                  /\ parse_ret = INADDR_NONE
                  /\ BadAddressPrinted
                  /\ rootpath = Tail_from(parse_in, c + 1)

\* C9 amended: every dotted-quad parse failure gives INADDR_NONE with the path
\* portion extracted; the diagnostic is printed in the scheme:// form only,
\* the legacy form fails silently.
C9_FailureIsSoft ==
    RootpathParsed =>
        /\ \A k \in 1..Len(uri_schemes), j \in 1..(Len(parse_in) + 1) :
              SchemeParseFailure(k, j) =>
                  /\ parse_ret = INADDR_NONE
                  /\ BadAddressPrinted
                  /\ rootpath = SchemePathPortion(j)
        /\ \A c \in 1..Len(parse_in) :
              LegacyParseFailure(c) =>
                  /\ parse_ret = INADDR_NONE
                  /\ ~BadAddressPrinted
                  /\ rootpath = Tail_from(parse_in, c + 1)

C9_Witness ==
    /\ RootpathParsed
    /\ parse_in = T_host \o << ":", "/", "e" >>
    /\ LegacyParseFailure(Len(T_host) + 1)
    /\ parse_ret = INADDR_NONE
    /\ rootpath = << "/", "e" >>
    /\ console = << >>

\* s begins with a slash
IsAbsolute(s) == Len(s) > 0 /\ s[1] = "/"

\* Some piece of s is a dotted quad denoting addr
ContainsAddress(s, addr) ==
    \E i \in 1..Len(s) : \E j \in i..Len(s) :
        /\ s[i] # "." /\ s[j] # "."
        /\ IsDottedQuad(SubSeq(s, i, j))
        /\ QuadAddress(SubSeq(s, i, j)) = addr

\* C10 as stated: after the parser, rootpath begins with a slash, and an
\* address other than INADDR_NONE is returned only if the input contained one.
C10_AlwaysAbsolute ==
    RootpathParsed =>
        /\ IsAbsolute(rootpath)
        /\ parse_ret # INADDR_NONE => ContainsAddress(parse_in, parse_ret)

\* The inputs after which rootpath begins with a slash
AbsoluteExpected(s) ==
    IF NoScheme(s)
    THEN LET colons == { c \in 1..Len(s) : s[c] = ":" }
         IN IsAbsolute(IF colons = {} THEN s ELSE Tail_from(s, Min(colons) + 1))
    ELSE \A k \in 1..Len(uri_schemes) :
            ~ /\ DoubleSlash(s, k)
              /\ \A b \in (Len(uri_schemes[k].scheme) + 2)..Len(s) : s[b] # "/"
              /\ Len(s) = FNAME_SIZE - 1

\* C10 amended: after the parser, rootpath begins with a slash for an input
\* with a scheme prefix, unless it is <scheme>://<text> without a further
\* slash and fills the buffer; for an input without a scheme prefix it does
\* exactly when the text after the first colon (the whole input when there is
\* no colon) does.  An address other than INADDR_NONE is returned only if the
\* input contained one.
C10_AbsoluteWhenInputIs ==
    RootpathParsed =>
        /\ IsAbsolute(rootpath) <=> AbsoluteExpected(parse_in)
        /\ parse_ret # INADDR_NONE => ContainsAddress(parse_in, parse_ret)

C10_Witness ==
    /\ RootpathParsed
    /\ parse_in = T_1234 \o << ":", "e", "/" >>
    /\ rootpath = << "e", "/" >>
    /\ parse_ret = << 1, 2, 3, 4 >>

----------------------------------------------------------------------------
(* Properties of the resolved parameters *)

\* net_getparams ran in the last entry point and returned 0: it returns 0
\* exactly when it reaches the exit label, where the root path is parsed
Resolved == op = "net_open" /\ Called("net_parse_rootpath")

\* C11: at the end of every successful net_getparams, rootip is the address
\* net_parse_rootpath returned when that is not INADDR_NONE, whatever BOOTP
\* or the "root" query had stored, and is what it was on reaching the exit
\* label when the parser returned INADDR_NONE.
C11_EmbeddedAddressOverrides ==
    Resolved =>
        /\ ret = 0
        /\ rootip = IF parse_ret # INADDR_NONE THEN parse_ret ELSE exit_rootip

C11_Witness ==
    /\ Resolved
    /\ Called("bp_getfile(root)")
    /\ exit_rootip = SERVER_BOOTPARAM
    /\ parse_ret = << 1, 2, 3, 4 >>
    /\ rootip = << 1, 2, 3, 4 >>

----------------------------------------------------------------------------
(* net_parse_rootpath applied to its own output *)

NoColon(path) == \A k \in 1..Len(path) : path[k] # ":"

\* C12: net_parse_rootpath run a second time, on the path the first run
\* produced, leaves that path unchanged and returns INADDR_NONE.
C12_Idempotent ==
    reparsed => (rootpath = parse_in /\ parse_ret = INADDR_NONE)

\* C12, amended: the same for every path produced by the first run that
\* holds no colon.
C12_IdempotentWithoutColon ==
    (reparsed /\ NoColon(parse_in)) =>
        (rootpath = parse_in /\ parse_ret = INADDR_NONE)

C12_Witness ==
    /\ reparsed
    /\ parse_in = << "/", "e" >>
    /\ rootpath = << "/", "e" >>
    /\ parse_ret = INADDR_NONE

----------------------------------------------------------------------------
(* What a successful net_getparams has resolved *)

\* C13: whenever net_getparams returns 0, myip, rootip and rootpath are all
\* set: no address is 0 and the path is not empty.
C13_NoDegradedMode ==
    Resolved =>
        /\ myip # INADDR_ANY
        /\ rootip # INADDR_ANY
        /\ rootpath # << >>

----------------------------------------------------------------------------
(* The interface and the state tied to it *)

----------------------------------------------------------------------------
(* The stages of one net_getparams *)

\* The address stands for "not known"
Unknown(addr) == addr = INADDR_ANY \/ addr = INADDR_NONE

\* Stage k + 1 of the last net_getparams left field unknown, stage k had it known
LostAt(k, field) ==
    /\ ~Unknown(stages[k][field])
    /\ Unknown(stages[k + 1][field])

Kept(field) == \A k \in 1..(Len(stages) - 1) : ~LostAt(k, field)

\* C15: across the stages of one net_getparams, a field among myip, netmask,
\* gateip and rootip that holds a known value is never overwritten by a later
\* stage with 0 or INADDR_NONE.
C15_NoFieldLost ==
    \A field \in { "myip", "netmask", "gateip", "rootip" } : Kept(field)

\* C15, amended: that holds of myip and netmask.  gateip is cleared by the
\* "gateway" stage, which leaves it 0 when the query fails; rootip never
\* becomes INADDR_NONE and becomes 0 only when the root path embeds 0.0.0.0.
C15_FieldsKeptButGateway ==
    /\ Kept("myip")
    /\ Kept("netmask")
    /\ \A k \in 1..(Len(stages) - 1) :
          /\ LostAt(k, "gateip") => stages[k + 1].stage = "bp_getfile(gateway)"
          /\ LostAt(k, "rootip") =>
                /\ stages[k + 1].stage = "net_parse_rootpath"
                /\ parse_ret = INADDR_ANY
                /\ stages[k + 1].rootip = INADDR_ANY

C15_Witness ==
    /\ Resolved
    /\ \E k \in 1..(Len(stages) - 1) :
          /\ stages[k].stage = "bp_whoami"
          /\ stages[k].gateip = ROUTER
          /\ stages[k].myip = CLIENT_RARP
          /\ stages[k].netmask = MASK_A
          /\ LostAt(k, "gateip")
    /\ gateip = INADDR_ANY
    /\ myip = CLIENT_RARP
    /\ netmask = MASK_A

\* C16: in every net_getparams, a retry after a failed one included, RARP
\* and the bootparam calls are skipped only if the bootp() of that very call
\* made myip non-zero: myip was 0 on entry, or bootp() changed it.
C16_SkipOnlyOnFreshBootp ==
    (op = "net_open" /\ Called("bootp") /\ ~Called("rarp_getipaddress")) =>
        /\ stages[1].stage = "entry"
        /\ stages[2].stage = "bootp"
        /\ stages[2].myip # INADDR_ANY
        /\ stages[1].myip = INADDR_ANY \/ stages[2].myip # stages[1].myip

----------------------------------------------------------------------------
(* The bootparam sequence *)

\* How many times the last entry point called fn
Count(fn) == Cardinality({ k \in 1..Len(calls) : calls[k].fn = fn })

\* The last entry point called fn and got rc
Answered(fn, rc) == \E k \in 1..Len(calls) : calls[k] = Call(fn, rc)

\* C17: after bootp() gave no address and RARP succeeded, the bootparam calls
\* come in the order whoami, getfile "gateway", getfile "root", each at most
\* once.  A failed whoami ends the call with an error and no getfile; a
\* failed "gateway" query is not fatal, "root" is still queried; a failed
\* "root" query ends the call with an error and the parser does not run.
C17_BootparamOrder ==
    \A k \in 1..Len(calls) :
        calls[k] = Call("rarp_getipaddress", 0) =>
            /\ k < Len(calls)
            /\ calls[k + 1].fn = "bp_whoami"
            /\ Count("bp_whoami") = 1
            /\ Count("bp_getfile(gateway)") <= 1
            /\ Count("bp_getfile(root)") <= 1
            /\ calls[k + 1].rc # 0 =>
                  /\ ret = EIO
                  /\ Count("bp_getfile(gateway)") = 0
                  /\ Count("bp_getfile(root)") = 0
                  /\ ~Called("net_parse_rootpath")
            /\ calls[k + 1].rc = 0 =>
                  /\ k + 3 <= Len(calls)
                  /\ calls[k + 2].fn = "bp_getfile(gateway)"
                  /\ calls[k + 3].fn = "bp_getfile(root)"
                  /\ calls[k + 3].rc # 0 =>
                        (ret = EIO /\ ~Called("net_parse_rootpath"))
                  /\ calls[k + 3].rc = 0 =>
                        (ret = 0 /\ k + 4 = Len(calls)
                                 /\ calls[k + 4].fn = "net_parse_rootpath")

C17_Witness ==
    /\ op = "net_open"
    /\ bootp_ip = INADDR_ANY
    /\ Answered("rarp_getipaddress", 0)
    /\ Answered("bp_whoami", 0)
    /\ Answered("bp_getfile(gateway)", -1)
    /\ Answered("bp_getfile(root)", 0)
    /\ Called("net_parse_rootpath")
    /\ ret = 0

----------------------------------------------------------------------------
(* Opening another interface *)

\* A step that is a net_open naming another interface than the one held
OpensAnother ==
    /\ op' = "net_open"
    /\ netdev_sock >= 0
    /\ open_dev' # netdev_name

\* The interface held is closed first and rootip is 0 unless resolved anew
ClosedFirst ==
    /\ Len(calls') >= 1
    /\ calls'[1].fn = "netif_close"
    /\ rootip' = INADDR_ANY \/ \E k \in 2..Len(calls') : calls'[k].fn = "bootp"

\* At most one interface is held, now and throughout the last entry point,
\* and it is held exactly when netdev_sock is a socket
OneInterface ==
    /\ netifs \in { 0, 1 }
    /\ netifs_max <= 1
    /\ netifs = 1 <=> netdev_sock >= 0

\* C18: a net_open that names another interface than the open one calls
\* netif_close and zeroes rootip before any netif_open or resolution for the
\* new interface; over any sequence of opens at most one interface is open
\* and every netif_open is matched by a netif_close before the next one.
C18_OneInterfaceAtATime == []OneInterface /\ [][OpensAnother => ClosedFirst]_vars

C18_Witness ==
    /\ op = "net_open"
    /\ open_dev = "net1"
    /\ calls = << Call("netif_close", 0) >>
    /\ netdev_name = "freed"
    /\ netdev_sock = -1
    /\ rootip = INADDR_ANY
    /\ netifs = 0

----------------------------------------------------------------------------
(* A net_open whose resolution failed *)

\* The last entry point was a net_open in which net_getparams failed; EIO is
\* the one error net_getparams returns
ResolutionFailed == op = "net_open" /\ Called("bootp") /\ ret # 0

\* The error is returned, the interface is released, nothing is counted
FailureReleased ==
    ResolutionFailed =>
        /\ ret = EIO
        /\ calls[Len(calls)] = Call("netif_close", 0)
        /\ netdev_sock = -1
        /\ netifs = 0
        /\ netdev_opens = 0

\* A step that is a net_open with failed resolution leaves the count alone
FailureNotCounted ==
    (op' = "net_open" /\ ret' = EIO) => netdev_opens' = netdev_opens

\* A net_open that follows a failed one starts over: netif_open, then bootp
RetryStartsOver ==
    (ResolutionFailed /\ op' = "net_open") =>
        /\ Len(calls') >= 1
        /\ calls'[1].fn = "netif_open"
        /\ calls'[1].rc >= 0 => (Len(calls') >= 2 /\ calls'[2].fn = "bootp")

\* C19: when net_getparams fails inside net_open, net_open returns that
\* error, netif_close is called and netdev_sock is -1, and netdev_opens is
\* not incremented, so that the next net_open opens the interface and
\* resolves again.
C19_FailedOpenReleases ==
    []FailureReleased /\ [][FailureNotCounted /\ RetryStartsOver]_vars

C19_Witness ==
    /\ ResolutionFailed
    /\ Answered("netif_open", 0)
    /\ Answered("bp_getfile(root)", -1)
    /\ ret = EIO
    /\ calls[Len(calls)] = Call("netif_close", 0)
    /\ netdev_sock = -1
    /\ netdev_opens = 0

----------------------------------------------------------------------------
(* A net_open that succeeded *)

\* C20: every net_open that returns 0 leaves netdev_sock a socket, held for
\* the interface named in the call, with the boot parameters resolved; so
\* also when it names another interface than an earlier successful open.
C20_SuccessHoldsInterface ==
    (op = "net_open" /\ ret = 0) =>
        /\ netdev_sock >= 0
        /\ netifs = 1
        /\ netdev_name = open_dev
        /\ myip # INADDR_ANY

====
